---- MODULE Spec2Model ----
(***************************************************************************)
(* Model of src/main.rs: the iced Sandbox application RustUI.  The state   *)
(* is the struct RustUI (theme, page, login_field); the operations are     *)
(* Sandbox::update, one action per Message variant, and the widgets that   *)
(* Sandbox::view builds, one action per widget that emits a Message.       *)
(***************************************************************************)
EXTENDS Naturals, Sequences, FiniteSets

\* Number of messages dispatched in one run of the model.
MaxSteps == 3

\* Theme variants the source names (Theme::Light, Theme::Dark).
Themes == {"Light", "Dark"}

\* enum Page
Pages == {"Login", "Register"}

\* String payloads tried for the e-mail and the password text input.
Emails == {"", "a@b.com"}

Passwords == {"", "pw"}

\* String payloads tried for Message::Router: the two literals update
\* compares against, one that differs in case only, one unrelated.
Routes == {"Login", "Register", "login", "Unknown"}

VARIABLES theme, page, login_field, hist, trail

vars == <<theme, page, login_field, hist, trail>>

\* struct LoginField
LoginField(email, password) == [email |-> email, password |-> password]

\* The value of *self: struct RustUI.
self == [theme |-> theme, page |-> page, login_field |-> login_field]

\* Every value of struct RustUI over the payloads above.
RustUI == [theme : Themes, page : Pages,
           login_field : [email : Emails, password : Passwords]]

\* enum Message.  Every variant is a record of one shape; a field a
\* variant does not carry holds "".
ToggleTheme == [tag |-> "ToggleTheme", route |-> "", email |-> "", password |-> ""]

LoginSubmit == [tag |-> "LoginSubmit", route |-> "", email |-> "", password |-> ""]

Router(route) == [tag |-> "Router", route |-> route, email |-> "", password |-> ""]

LoginFieldChange(email, password) ==
    [tag |-> "LoginFieldChange", route |-> "", email |-> email, password |-> password]

\* Sandbox::new
new == [theme |-> "Dark", page |-> "Login", login_field |-> LoginField("", "")]

(***************************************************************************)
(* Sandbox::update, one operator per match arm.  Each maps the value of    *)
(* *self before the call to its value after the call.                      *)
(***************************************************************************)
ToggleAlwaysLight(s) == [s EXCEPT !.theme = "Light"]

update_ToggleTheme(s) ==
    [s EXCEPT !.theme = IF s.theme = "Light" THEN "Dark" ELSE "Light"]

FieldChangeMerge(s, email, password) ==
    [s EXCEPT !.login_field.email = IF email = "" THEN @ ELSE email,
              !.login_field.password = IF password = "" THEN @ ELSE password]

update_LoginFieldChange(s, email, password) ==
    [s EXCEPT !.login_field.email = email,
              !.login_field.password = password]

SubmitClearsPassword(s) == [s EXCEPT !.login_field.password = ""]

update_LoginSubmit(s) == s

RouterResetsOnUnknown(s, route) ==
    IF route = "Register" THEN s ELSE [s EXCEPT !.page = "Login"]

RouterClearsBuffer(s, route) ==
    IF route = "Login"
    THEN [s EXCEPT !.page = "Login", !.login_field = LoginField("", "")]
    ELSE s

RouterAssignsRegister(s, route) ==
    IF route = "Login"
    THEN [s EXCEPT !.page = "Login"]
    ELSE IF route = "Register"
         THEN [s EXCEPT !.page = "Register"]
         ELSE s

\* The "Register" arm evaluates the comparison self.page == Page::Register
\* and discards it (let _ = ...): it assigns nothing.
update_Router(s, route) ==
    IF route = "Login"
    THEN [s EXCEPT !.page = "Login"]
    ELSE IF route = "Register"
         THEN s
         ELSE s

update(s, message) ==
    CASE message.tag = "ToggleTheme" -> update_ToggleTheme(s)
      [] message.tag = "LoginFieldChange" ->
            update_LoginFieldChange(s, message.email, message.password)
      [] message.tag = "LoginSubmit" -> update_LoginSubmit(s)
      [] message.tag = "Router" -> update_Router(s, message.route)

(***************************************************************************)
(* Sandbox::view and the widget builders it calls.  A widget tree is       *)
(* modelled by the messages its widgets emit and the values they show.     *)
(***************************************************************************)
\* button(label).on_press(message)
button(label, message) == [label |-> label, on_press |-> message]

\* fn page_footer
page_footer(btn) ==
    [toggle |-> button("Toggle Theme", ToggleTheme), nav |-> btn]

EmailInputDropsPassword(lf, email) == LoginFieldChange(email, "")

\* The on_input closure of the e-mail TextInput of log_in_page.
email_on_input(lf, email) == LoginFieldChange(email, lf.password)

\* The on_input closure of the password TextInput of log_in_page.
password_on_input(lf, password) == LoginFieldChange(lf.email, password)

\* fn submit_btn
submit_btn(name, event) == button(name, event)

\* fn log_in_page
log_in_page(lf) ==
    [kind |-> "log_in_page",
     text |-> "Graphical User Interface - Iced!",
     email_value |-> lf.email,
     password_value |-> lf.password,
     submit |-> submit_btn("Login", LoginSubmit)]

\* fn register_page
register_page ==
    [kind |-> "register_page", text |-> "Page Two"]

ViewFooterSamePage(s) ==
    [content |-> IF s.page = "Login"
                 THEN log_in_page(s.login_field)
                 ELSE register_page,
     footer |-> IF s.page = "Login"
                THEN page_footer(button("Page Two", Router("Login")))
                ELSE page_footer(button("Main Page - Login", Router("Register")))]

\* Sandbox::view
view(s) ==
    [content |-> IF s.page = "Login"
                 THEN log_in_page(s.login_field)
                 ELSE register_page,
     footer |-> IF s.page = "Login"
                THEN page_footer(button("Page Two", Router("Register")))
                ELSE page_footer(button("Main Page - Login", Router("Login")))]

(***************************************************************************)
(* The state machine.  hist is the sequence of calls of update: the message *)
(* passed and the widget of the view that emitted it ("caller" when update *)
(* is called with a message no widget emitted); trail[i] is the value of   *)
(* *self before the i-th call.                                             *)
(***************************************************************************)
Init ==
    /\ theme = new.theme
    /\ page = new.page
    /\ login_field = new.login_field
    /\ hist = <<>>
    /\ trail = <<>>

\* update and view take any value of struct RustUI as *self.
InitAny ==
    /\ \E s \in RustUI :
          /\ theme = s.theme
          /\ page = s.page
          /\ login_field = s.login_field
    /\ hist = <<>>
    /\ trail = <<>>

\* The model stops after MaxSteps calls of update.
CanStep == Len(hist) < MaxSteps

\* One call self.update(message).
Dispatch(from, message) ==
    /\ LET s == update(self, message)
       IN /\ theme' = s.theme
          /\ page' = s.page
          /\ login_field' = s.login_field
    /\ hist' = Append(hist, [from |-> from, message |-> message])
    /\ trail' = Append(trail, self)

\* update called with each Message variant and any payload.
UpdateToggleTheme ==
    /\ CanStep
    /\ Dispatch("caller", ToggleTheme)

UpdateLoginFieldChange(email, password) ==
    /\ CanStep
    /\ Dispatch("caller", LoginFieldChange(email, password))

UpdateLoginSubmit ==
    /\ CanStep
    /\ Dispatch("caller", LoginSubmit)

UpdateRouter(route) ==
    /\ CanStep
    /\ Dispatch("caller", Router(route))

\* The runtime loop: a widget of view(self) emits its message and the
\* runtime passes it to update.
PressToggleTheme ==
    /\ CanStep
    /\ Dispatch("toggle_btn", view(self).footer.toggle.on_press)

PressNav ==
    /\ CanStep
    /\ Dispatch("nav_btn", view(self).footer.nav.on_press)

PressLogin ==
    /\ CanStep
    /\ view(self).content.kind = "log_in_page"
    /\ Dispatch("submit_btn", view(self).content.submit.on_press)

InputEmail(email) ==
    /\ CanStep
    /\ view(self).content.kind = "log_in_page"
    /\ Dispatch("email_input", email_on_input(self.login_field, email))

InputPassword(password) ==
    /\ CanStep
    /\ view(self).content.kind = "log_in_page"
    /\ Dispatch("password_input", password_on_input(self.login_field, password))

Next ==
    \/ UpdateToggleTheme
    \/ \E e \in Emails, p \in Passwords : UpdateLoginFieldChange(e, p)
    \/ UpdateLoginSubmit
    \/ \E r \in Routes : UpdateRouter(r)
    \/ PressToggleTheme
    \/ PressNav
    \/ PressLogin
    \/ \E e \in Emails : InputEmail(e)
    \/ \E p \in Passwords : InputPassword(p)

\* The program: started by Sandbox::new.
Spec == Init /\ [][Next]_vars

\* update and view as functions of *self: started from any RustUI value.
SpecAny == InitAny /\ [][Next]_vars

\* The last message dispatched and the state it was dispatched from.
Stepped == hist # <<>>

Last == hist[Len(hist)].message

From == hist[Len(hist)].from

pre == trail[Len(trail)]

TypeOK ==
    /\ self \in RustUI
    /\ Len(hist) = Len(trail)
    /\ Len(hist) <= MaxSteps

(***************************************************************************)
(* Properties of update                                                    *)
(***************************************************************************)
\* C1: dispatching Router("Register") from a state whose page is Login
\* yields page = Register, and dispatching Router("Login") from a state
\* whose page is Register yields page = Login.
C1_NavigateSwitchesPage ==
    Stepped =>
        /\ (Last = Router("Register") /\ pre.page = "Login") => page = "Register"
        /\ (Last = Router("Login") /\ pre.page = "Register") => page = "Login"

\* C2: from the state of Sandbox::new, after LoginFieldChange("a@b.com",
\* "pw"), ToggleTheme, Router("Register") in this order the state is
\* theme = Light, page = Register, email = "a@b.com", password = "pw".
Scenario ==
    <<LoginFieldChange("a@b.com", "pw"), ToggleTheme, Router("Register")>>

ScenarioRan ==
    /\ Len(hist) = Len(Scenario)
    /\ trail[1] = new
    /\ \A i \in 1..Len(Scenario) : hist[i].message = Scenario[i]

C2_ScenarioFinalState ==
    ScenarioRan =>
        /\ theme = "Light"
        /\ page = "Register"
        /\ login_field = LoginField("a@b.com", "pw")

\* C3: a Router message whose route is neither "Login" nor "Register"
\* leaves page as it was, from every state, and update is defined for it.
C3_UnknownRouteKeepsPage ==
    /\ \A r \in Routes \ {"Login", "Register"} :
          update(self, Router(r)) \in RustUI
    /\ (Stepped /\ Last.tag = "Router" /\ Last.route \notin {"Login", "Register"})
          => page = pre.page

C3_Witness ==
    /\ Stepped
    /\ Last = Router("Unknown")
    /\ pre.page = "Register"
    /\ page = "Register"

\* C5: after LoginFieldChange(e, p) the login buffer is exactly
\* {email: e, password: p}, whatever it held before.
C5_FieldChangeOverwrites ==
    (Stepped /\ Last.tag = "LoginFieldChange")
        => login_field = LoginField(Last.email, Last.password)

C5_Witness ==
    /\ Stepped
    /\ Last = LoginFieldChange("", "pw")
    /\ pre.login_field = LoginField("a@b.com", "")
    /\ login_field = LoginField("", "pw")

\* C6: LoginSubmit leaves theme, page, email and password as they were,
\* for any buffer contents.
C6_SubmitIsNoOp ==
    (Stepped /\ Last = LoginSubmit) => self = pre

C6_Witness ==
    /\ Stepped
    /\ Last = LoginSubmit
    /\ pre.login_field = LoginField("a@b.com", "pw")
    /\ pre.page = "Register"
    /\ pre.theme = "Light"
    /\ self = pre

\* C7: one ToggleTheme changes theme to the other of Light and Dark, and
\* two ToggleTheme in a row give back the theme before the first of them.
C7_ToggleInvolution ==
    /\ (Stepped /\ Last = ToggleTheme)
          => (theme \in Themes /\ theme # pre.theme)
    /\ (/\ Len(hist) >= 2
        /\ Last = ToggleTheme
        /\ hist[Len(hist) - 1].message = ToggleTheme)
          => theme = trail[Len(trail) - 1].theme

C7_Witness ==
    /\ Len(hist) >= 2
    /\ Last = ToggleTheme
    /\ hist[Len(hist) - 1].message = ToggleTheme
    /\ pre.theme = "Dark"
    /\ theme = "Light"
    /\ trail[Len(trail) - 1].theme = "Light"

\* C8: each message touches its own field only: the theme changes under
\* ToggleTheme alone, which keeps page and login buffer; LoginFieldChange
\* keeps theme and page; Router keeps theme and login buffer.
C8_Frame ==
    Stepped =>
        /\ theme # pre.theme => Last = ToggleTheme
        /\ Last = ToggleTheme
              => (page = pre.page /\ login_field = pre.login_field)
        /\ Last.tag = "LoginFieldChange"
              => (theme = pre.theme /\ page = pre.page)
        /\ Last.tag = "Router"
              => (theme = pre.theme /\ login_field = pre.login_field)

C8_Witness ==
    /\ Stepped
    /\ Last = Router("Login")
    /\ pre.page = "Register"
    /\ page = "Login"
    /\ login_field = LoginField("a@b.com", "pw")
    /\ theme = "Light"

OtherPage(p) == IF p = "Login" THEN "Register" ELSE "Login"

\* C4: in every state the footer has a theme-toggle control that emits
\* ToggleTheme and a navigation control that emits Router with the name of
\* the page that is not the current one, and the page layout shown depends
\* on the current page alone.
C4_ViewFooterAndLayout ==
    /\ view(self).footer.toggle.on_press = ToggleTheme
    /\ view(self).footer.nav.on_press = Router(OtherPage(page))
    /\ view(self).content.kind =
          (IF page = "Login" THEN "log_in_page" ELSE "register_page")
    /\ \A s \in RustUI :
          s.page = page => view(s).content.kind = view(self).content.kind

C4_Witness ==
    /\ Stepped
    /\ page = "Register"
    /\ view(self).footer.nav.on_press = Router("Login")
    /\ view(self).content.kind = "register_page"

\* C10: a message of the e-mail input for text e, emitted in a state whose
\* password is p0, leaves email = e and password = p0; a message of the
\* password input for text p, emitted in a state whose email is e0, leaves
\* email = e0 and password = p.  The two inputs and the Login button emit
\* only while page = Login.
C10_EditKeepsOtherField ==
    Stepped =>
        /\ From = "email_input"
              => (/\ Last.tag = "LoginFieldChange"
                  /\ login_field = LoginField(Last.email, pre.login_field.password))
        /\ From = "password_input"
              => (/\ Last.tag = "LoginFieldChange"
                  /\ login_field = LoginField(pre.login_field.email, Last.password))
        /\ From \in {"email_input", "password_input", "submit_btn"}
              => pre.page = "Login"
        /\ From = "submit_btn" => Last = LoginSubmit

C10_Witness ==
    /\ Len(hist) >= 2
    /\ From = "email_input"
    /\ pre.login_field = LoginField("", "pw")
    /\ login_field = LoginField("a@b.com", "pw")
    /\ hist[Len(hist) - 1].from = "password_input"

====
